---- MODULE Spec2Model ----
(***************************************************************************)
(* Model of xesmf/smm.py: read_weights, apply_weights and                  *)
(* add_nans_to_weights, over scipy COO/LIL matrices and C-ordered numpy    *)
(* arrays.                                                                 *)
(*                                                                         *)
(* A numpy array is [shape, flat]: its shape and its elements in C         *)
(* (row-major) order.  A COO matrix is [tag, shape, row, col, data]: the   *)
(* stored triplets in storage order, indices 0-based as in the code.       *)
(* Weights and data are integers (tenths); NaN is a reserved value that    *)
(* absorbs every sum and product.                                          *)
(***************************************************************************)
EXTENDS Integers, Sequences, FiniteSets, TLC

VARIABLES W, call, openFiles

vars == <<W, call, openFiles>>

\* ------------------------------------------------------------- bounds
\* Largest number of triplets in a weight source.
MaxNnz == 2
\* Largest number of leading ("extra") dimensions of a data array.
MaxExtraDims == 2

\* np.NaN: outside the range of every finite value of the model.
NaN == -1000

\* Weight values of a source (3 = 0.3; 0 is a zero stored explicitly).
WeightVals == {0, 3}
\* Caller-supplied n_in and n_out, and the 1-based indices of a source.
Ns == {1, 2}
\* Grid shapes (ny, nx) of apply_weights.
GridShapes == {<<1, 1>>, <<1, 2>>, <<2, 1>>, <<2, 2>>}

\* ------------------------------------------------------------- floats
Add(a, b) == IF a = NaN \/ b = NaN THEN NaN ELSE a + b

Mul(a, b) == IF a = NaN \/ b = NaN THEN NaN ELSE a * b

\* ------------------------------------------------------------- numpy
RECURSIVE Prod(_)
Prod(s) == IF s = <<>> THEN 1 ELSE Head(s) * Prod(Tail(s))

\* a.shape[-2:]
Last2(s) == IF Len(s) <= 2 THEN s ELSE SubSeq(s, Len(s) - 1, Len(s))

\* a.shape[0:-2]
Front2(s) == IF Len(s) <= 2 THEN <<>> ELSE SubSeq(s, 1, Len(s) - 2)

\* a.reshape(shape) of a C-ordered array: the elements keep their C order;
\* one dimension of -1 is inferred from the size.
reshape(a, shape) ==
    LET known == Prod([k \in 1..Len(shape) |-> IF shape[k] = -1 THEN 1 ELSE shape[k]])
        full  == [k \in 1..Len(shape) |->
                     IF shape[k] = -1 THEN Len(a.flat) \div known ELSE shape[k]]
    IN  [shape |-> full, flat |-> a.flat]

\* a.T of a 2-D array, given again in C order.
Transpose(a) ==
    LET r == a.shape[1]
        c == a.shape[2]
    IN  [shape |-> <<c, r>>,
         flat  |-> [k \in 1..(r * c) |->
                       LET j == (k - 1) \div r
                           i == (k - 1) % r
                       IN  a.flat[i * c + j + 1]]]

\* ------------------------------------------------------------- scipy
\* y[i, e] accumulated over the stored entries n = 1..upto:
\* y[row[n], e] += data[n] * x[col[n], e].
RECURSIVE Accumulate(_, _, _, _, _)
Accumulate(m, x, i, e, upto) ==
    IF upto = 0 THEN 0
    ELSE LET rest == Accumulate(m, x, i, e, upto - 1)
         IN  IF m.row[upto] = i
             THEN Add(rest, Mul(m.data[upto], x.flat[m.col[upto] * x.shape[2] + e + 1]))
             ELSE rest

\* As Accumulate, with a later entry of a cell overwriting the earlier ones.
dot_overwrite(m, x) ==
    LET E == x.shape[2]
        LastOf(i, j) == {n \in 1..Len(m.data) : m.row[n] = i /\ m.col[n] = j
                            /\ \A n2 \in 1..Len(m.data) :
                                 (m.row[n2] = i /\ m.col[n2] = j) => n2 <= n}
        kept == [tag |-> "coo_matrix", shape |-> m.shape,
                 row |-> [n \in 1..Len(m.data) |->
                             IF n \in LastOf(m.row[n], m.col[n]) THEN m.row[n] ELSE -1],
                 col |-> m.col, data |-> m.data]
    IN  [shape |-> <<m.shape[1], E>>,
         flat  |-> [k \in 1..(m.shape[1] * E) |->
                       Accumulate(kept, x, (k - 1) \div E, (k - 1) % E, Len(m.data))]]

\* weights.dot(x) for a COO matrix and a dense 2-D x of shape (n_in, E).
dot(m, x) ==
    LET E == x.shape[2]
    IN  [shape |-> <<m.shape[1], E>>,
         flat  |-> [k \in 1..(m.shape[1] * E) |->
                       Accumulate(m, x, (k - 1) \div E, (k - 1) % E, Len(m.data))]]

\* ------------------------------------------------------------- results
AssertionError(n) == [tag |-> "AssertionError", check |-> n]

\* ------------------------------------------------------------- apply_weights
\* Without the transpose back of the product.
apply_weights_noT(weights, indata, shape_in, shape_out) ==
    LET shape_horiz == Last2(indata.shape)
        extra_shape == Front2(indata.shape)
        res(r) == [ret |-> r, weights |-> weights, indata |-> indata]
    IN  IF shape_horiz # shape_in THEN res(AssertionError(1))
        ELSE IF shape_in[1] * shape_in[2] # weights.shape[2] THEN res(AssertionError(2))
        ELSE IF shape_out[1] * shape_out[2] # weights.shape[1] THEN res(AssertionError(3))
        ELSE LET indata_flat  == reshape(indata, <<-1, shape_in[1] * shape_in[2]>>)
                 outdata_flat == dot(weights, Transpose(indata_flat))
                 outdata      == reshape(outdata_flat, extra_shape \o shape_out)
             IN  res([tag |-> "ndarray", shape |-> outdata.shape, flat |-> outdata.flat])

\* Without the check of the data's horizontal shape.
apply_weights_nocheck(weights, indata, shape_in, shape_out) ==
    LET extra_shape == Front2(indata.shape)
        res(r) == [ret |-> r, weights |-> weights, indata |-> indata]
    IN  IF Len(indata.shape) < 2 \/ Prod(Last2(indata.shape)) # shape_in[1] * shape_in[2]
        THEN res([tag |-> "ValueError", names |-> {}])
        ELSE IF shape_in[1] * shape_in[2] # weights.shape[2] THEN res(AssertionError(2))
        ELSE IF shape_out[1] * shape_out[2] # weights.shape[1] THEN res(AssertionError(3))
        ELSE LET indata_flat  == reshape(indata, <<-1, shape_in[1] * shape_in[2]>>)
                 outdata_flat == Transpose(dot(weights, Transpose(indata_flat)))
                 outdata      == reshape(outdata_flat, extra_shape \o shape_out)
             IN  res([tag |-> "ndarray", shape |-> outdata.shape, flat |-> outdata.flat])

\* apply_weights(weights, indata, shape_in, shape_out): the value returned
\* (an array, or the assertion that failed) and the two argument objects as
\* the call leaves them.
apply_weights(weights, indata, shape_in, shape_out) ==
    LET shape_horiz == Last2(indata.shape)
        extra_shape == Front2(indata.shape)
        res(r) == [ret |-> r, weights |-> weights, indata |-> indata]
    IN  IF shape_horiz # shape_in THEN res(AssertionError(1))
        ELSE IF shape_in[1] * shape_in[2] # weights.shape[2] THEN res(AssertionError(2))
        ELSE IF shape_out[1] * shape_out[2] # weights.shape[1] THEN res(AssertionError(3))
        ELSE LET indata_flat  == reshape(indata, <<-1, shape_in[1] * shape_in[2]>>)
                 outdata_flat == Transpose(dot(weights, Transpose(indata_flat)))
                 outdata      == reshape(outdata_flat, extra_shape \o shape_out)
             IN  res([tag |-> "ndarray", shape |-> outdata.shape, flat |-> outdata.flat])

\* ------------------------------------------------------------- sparse formats
\* scipy.sparse.coo_matrix((data, (row, col)), shape): the triplets are stored
\* as given, duplicates included; an index outside the shape is refused.
coo_matrix(data, row, col, shape) ==
    IF \E k \in 1..Len(data) :
          row[k] < 0 \/ row[k] >= shape[1] \/ col[k] < 0 \/ col[k] >= shape[2]
    THEN [tag |-> "ValueError", names |-> {}]
    ELSE [tag |-> "coo_matrix", shape |-> shape, row |-> row, col |-> col, data |-> data]

\* The sum of the stored values of cell (i, j) among entries 1..upto.
RECURSIVE SumAt(_, _, _, _)
SumAt(m, i, j, upto) ==
    IF upto = 0 THEN 0
    ELSE IF m.row[upto] = i /\ m.col[upto] = j
         THEN Add(SumAt(m, i, j, upto - 1), m.data[upto])
         ELSE SumAt(m, i, j, upto - 1)

Stored(m, i, j) == \E k \in 1..Len(m.data) : m.row[k] = i /\ m.col[k] = j

\* Row i of the CSR form of a COO matrix, from column j on: the stored
\* columns in increasing order, each once.
RECURSIVE RowCols(_, _, _)
RowCols(m, i, j) ==
    IF j >= m.shape[2] THEN <<>>
    ELSE (IF Stored(m, i, j) THEN <<j>> ELSE <<>>) \o RowCols(m, i, j + 1)

\* The values that go with RowCols: duplicates of a cell summed.
RECURSIVE RowVals(_, _, _)
RowVals(m, i, j) ==
    IF j >= m.shape[2] THEN <<>>
    ELSE (IF Stored(m, i, j) THEN <<SumAt(m, i, j, Len(m.data))>> ELSE <<>>)
         \o RowVals(m, i, j + 1)

\* Row i from entry k on, as stored: the duplicates of a cell kept apart.
RECURSIVE RowRaw(_, _, _, _)
RowRaw(m, i, k, what) ==
    IF k > Len(m.data) THEN <<>>
    ELSE (IF m.row[k] = i THEN <<IF what = "col" THEN m.col[k] ELSE m.data[k]>> ELSE <<>>)
         \o RowRaw(m, i, k + 1, what)

\* tolil without the summing of duplicates.
tolil_raw(weights) ==
    [tag   |-> "lil_matrix",
     shape |-> weights.shape,
     rows  |-> [i \in 1..weights.shape[1] |-> RowRaw(weights, i - 1, 1, "col")],
     data  |-> [i \in 1..weights.shape[1] |-> RowRaw(weights, i - 1, 1, "data")]]

\* weights.tolil(): a new matrix in list-of-lists form, made through CSR, so
\* with the duplicates of a cell summed and each row sorted by column.
tolil(weights) ==
    [tag   |-> "lil_matrix",
     shape |-> weights.shape,
     rows  |-> [i \in 1..weights.shape[1] |-> RowCols(weights, i - 1, 0)],
     data  |-> [i \in 1..weights.shape[1] |-> RowVals(weights, i - 1, 0)]]

\* The triplets <<row, col, value>> of rows i.. of a LIL matrix, row by row.
RECURSIVE LilEntries(_, _)
LilEntries(M, i) ==
    IF i > Len(M.rows) THEN <<>>
    ELSE [k \in 1..Len(M.rows[i]) |-> <<i - 1, M.rows[i][k], M.data[i][k]>>]
         \o LilEntries(M, i + 1)

\* sps.coo_matrix(M) of a LIL matrix M.
coo_from_lil(M) ==
    LET ent == LilEntries(M, 1)
    IN  [tag   |-> "coo_matrix",
         shape |-> M.shape,
         row   |-> [k \in 1..Len(ent) |-> ent[k][1]],
         col   |-> [k \in 1..Len(ent) |-> ent[k][2]],
         data  |-> [k \in 1..Len(ent) |-> ent[k][3]]]

\* ------------------------------------------------------------- add_nans_to_weights
\* The loop over the rows with no patch at all.
RECURSIVE FillRows_skip(_, _)
FillRows_skip(M, krow) == M

\* The loop patching an empty row with a zero instead of NaN.
RECURSIVE FillRows_zero(_, _)
FillRows_zero(M, krow) ==
    IF krow >= Len(M.rows) THEN M
    ELSE FillRows_zero(
             [M EXCEPT !.rows[krow + 1] = IF @ = <<>> THEN <<0>> ELSE @,
                       !.data[krow + 1] = IF @ = <<>> THEN <<0>> ELSE @],
             krow + 1)

\* for krow in range(len(M.rows)): an empty row gets column 0 and the value NaN.
RECURSIVE FillRows(_, _)
FillRows(M, krow) ==
    IF krow >= Len(M.rows) THEN M
    ELSE FillRows(
             [M EXCEPT !.rows[krow + 1] = IF @ = <<>> THEN <<0>> ELSE @,
                       !.data[krow + 1] = IF @ = <<>> THEN <<NaN>> ELSE @],
             krow + 1)

\* Patching the argument in place.
add_nans_inplace(weights) ==
    LET M == FillRows(tolil(weights), 0)
    IN  [ret |-> coo_from_lil(M), weights |-> coo_from_lil(M)]

\* add_nans_to_weights(weights): the matrix returned, and the argument object
\* as the call leaves it (the loop writes to M, the copy tolil made, and the
\* last assignment rebinds the local name only).
add_nans_to_weights(weights) ==
    LET M == FillRows(tolil(weights), 0)
    IN  [ret |-> coo_from_lil(M), weights |-> weights]

\* ------------------------------------------------------------- weight sources
\* x - 1 on an array: a new array.
Minus1(x) == [k \in 1..Len(x) |-> x[k] - 1]

\* The triplets of a source: at most MaxNnz of them, 1-based indices.
Triplets ==
    UNION {[1..n -> [row : Ns, col : Ns, S : WeightVals]] : n \in 0..MaxNnz}

\* The three arrays of a triplet sequence, under the names `names` gives to
\* the column indices, the row indices and the values.
Arrays(t, names) ==
    (names[1] :> [k \in 1..Len(t) |-> t[k].col]) @@
    (names[2] :> [k \in 1..Len(t) |-> t[k].row]) @@
    (names[3] :> [k \in 1..Len(t) |-> t[k].S])

DatasetNames == <<"col", "row", "S">>

DictNames == <<"col_src", "row_dst", "weights">>

\* f without the name x.
Without(f, x) == [n \in DOMAIN f \ {x} |-> f[n]]

\* One triplet, used for the sources that lack a field and for the files.
OneTriplet == <<[row |-> 1, col |-> 2, S |-> 3]>>

\* Sources that lack one of the three fields: OneTriplet less one variable
\* (xr.Dataset) or less one key (dictionary of ESMPy).
Lacking ==
    {[kind |-> "Dataset", vars |-> Without(Arrays(OneTriplet, DatasetNames), x)] :
        x \in {"col", "row", "S"}}
    \cup {[kind |-> "dict", vars |-> Without(Arrays(OneTriplet, DictNames), x)] :
             x \in {"col_src", "row_dst", "weights"}}

\* The same cell given twice, with the weights 0.3 and 0.2.
TwiceTriplet == <<[row |-> 1, col |-> 1, S |-> 3], [row |-> 1, col |-> 1, S |-> 2]>>

\* xr.Dataset objects: every triplet sequence.
Datasets ==
    {[kind |-> "Dataset", vars |-> Arrays(t, DatasetNames)] :
        t \in Triplets \cup {TwiceTriplet}}

\* Dictionaries of ESMPy: every triplet sequence.
Dicts ==
    {[kind |-> "dict", vars |-> Arrays(t, DictNames)] : t \in Triplets \cup {TwiceTriplet}}

\* Matrices built beforehand: the 4 x 4 identity, and a 4 x 2 matrix with
\* unsorted entries, a duplicated cell and an empty row.
Prebuilt ==
    {[kind |-> "coo_matrix",
      m |-> [tag |-> "coo_matrix", shape |-> <<4, 4>>,
             row |-> <<0, 1, 2, 3>>, col |-> <<0, 1, 2, 3>>, data |-> <<1, 1, 1, 1>>]],
     [kind |-> "coo_matrix",
      m |-> [tag |-> "coo_matrix", shape |-> <<4, 2>>,
             row |-> <<3, 0, 2, 0>>, col |-> <<1, 1, 0, 1>>, data |-> <<1, 2, 5, 3>>]]}

\* The weight files on disk: netCDF files read by xr.open_dataset.
Files ==
    ("weights.nc" :> Arrays(OneTriplet, DatasetNames)) @@
    ("empty.nc" :> Arrays(<<>>, DatasetNames)) @@
    ("no_S.nc" :> Without(Arrays(OneTriplet, DatasetNames), "S")) @@
    ("no_row.nc" :> Without(Arrays(OneTriplet, DatasetNames), "row"))

\* Paths a caller gives: the files, and one path with no file.
Paths == {[kind |-> "str", path |-> p] : p \in DOMAIN Files \cup {"missing.nc"}}

\* The sources of a regridding session: held in memory.
MemSources == Datasets \cup Dicts \cup Lacking \cup Prebuilt

\* The sources of the loader: the paths, the sources lacking a field, and
\* OneTriplet as a dataset and as a dictionary.
LoadSources ==
    Paths \cup Lacking
    \cup {[kind |-> "Dataset", vars |-> Arrays(OneTriplet, DatasetNames)],
          [kind |-> "dict", vars |-> Arrays(OneTriplet, DictNames)]}

\* ------------------------------------------------------------- read_weights
ValueError(names) == [tag |-> "ValueError", names |-> names]

Outcome(r, weights, opened) == [ret |-> r, weights |-> weights, opened |-> opened]

\* The shape taken from the largest indices instead of n_out and n_in.
RECURSIVE MaxOf(_)
MaxOf(x) == IF x = <<>> THEN 0
            ELSE LET m == MaxOf(Tail(x)) IN IF Head(x) > m THEN Head(x) ELSE m

read_weights_infer(weights, n_in, n_out) ==
    IF weights.kind \in {"Dataset", "dict"}
    THEN LET nm == IF weights.kind = "dict" THEN DictNames ELSE DatasetNames
         IN  IF ~({nm[1], nm[2], nm[3]} \subseteq DOMAIN weights.vars)
             THEN Outcome(ValueError({nm[1], nm[2], nm[3]}), weights, {})
             ELSE LET col == Minus1(weights.vars[nm[1]])
                      row == Minus1(weights.vars[nm[2]])
                  IN  Outcome(coo_matrix(weights.vars[nm[3]], row, col,
                                         <<MaxOf(row) + 1, MaxOf(col) + 1>>), weights, {})
    ELSE Outcome(weights.m, weights, {})

\* The variable S not required of a source.
read_weights_noS(weights, n_in, n_out) ==
    IF weights.kind \in {"Dataset", "dict", "str"}
    THEN IF weights.kind = "str" /\ weights.path \notin DOMAIN Files
         THEN Outcome([tag |-> "IOError", names |-> {}], weights, {})
         ELSE LET nm == IF weights.kind = "dict" THEN DictNames ELSE DatasetNames
                  ds == IF weights.kind = "str" THEN Files[weights.path] ELSE weights.vars
                  opened == IF weights.kind = "str" THEN {weights.path} ELSE {}
              IN  IF ~({nm[1], nm[2]} \subseteq DOMAIN ds)
                  THEN Outcome(ValueError({nm[1], nm[2], nm[3]}), weights, opened)
                  ELSE IF nm[3] \notin DOMAIN ds
                  THEN Outcome([tag |-> "KeyError", names |-> {nm[3]}], weights, opened)
                  ELSE Outcome(coo_matrix(ds[nm[3]], Minus1(ds[nm[2]]), Minus1(ds[nm[1]]),
                                          <<n_out, n_in>>), weights, opened)
    ELSE Outcome(weights.m, weights, {})

\* read_weights(weights, n_in, n_out): the value returned (a matrix, or the
\* error raised), the source object as the call leaves it, and the files the
\* call opened and did not close (xr.open_dataset has no matching close).
read_weights(weights, n_in, n_out) ==
    IF weights.kind \in {"str", "Dataset"}
    THEN IF weights.kind # "Dataset" /\ weights.path \notin DOMAIN Files
         THEN Outcome([tag |-> "IOError", names |-> {}], weights, {})
         ELSE LET ds_w   == IF weights.kind # "Dataset"
                            THEN Files[weights.path] ELSE weights.vars
                  opened == IF weights.kind # "Dataset" THEN {weights.path} ELSE {}
              IN  IF ~({"col", "row", "S"} \subseteq DOMAIN ds_w)
                  THEN Outcome(ValueError({"col", "row", "S"}), weights, opened)
                  ELSE LET col == Minus1(ds_w["col"])
                           row == Minus1(ds_w["row"])
                           S   == ds_w["S"]
                       IN  Outcome(coo_matrix(S, row, col, <<n_out, n_in>>),
                                   weights, opened)
    ELSE IF weights.kind = "dict"
    THEN IF ~({"col_src", "row_dst", "weights"} \subseteq DOMAIN weights.vars)
         THEN Outcome(ValueError({"col_src", "row_dst", "weights"}), weights, {})
         ELSE LET col == Minus1(weights.vars["col_src"])
                  row == Minus1(weights.vars["row_dst"])
                  S   == weights.vars["weights"]
              IN  Outcome(coo_matrix(S, row, col, <<n_out, n_in>>), weights, {})
    ELSE IF weights.kind = "coo_matrix"
    THEN Outcome(weights.m, weights, {})
    ELSE Outcome([tag |-> "UnboundLocalError", names |-> {"S"}], weights, {})

\* ------------------------------------------------------------- data arrays
\* Leading dimensions: dimension k has k + 1 elements, so that the order of
\* the dimensions shows in the shape.
ExtraShapes == {[k \in 1..n |-> k + 1] : n \in 0..MaxExtraDims}

\* The elements 1, 2, 3, ... in C order; with `hole`, the last one is NaN.
Fill(shape, hole) ==
    [shape |-> shape,
     flat  |-> [k \in 1..Prod(shape) |-> IF hole /\ k = Prod(shape) THEN NaN ELSE k]]

\* The arrays a caller passes: every extra shape over every grid shape, and
\* one array of a single dimension.
DataArrays ==
    {Fill(e \o g, h) : e \in ExtraShapes, g \in GridShapes, h \in BOOLEAN}
    \cup {Fill(<<2>>, FALSE)}

\* ------------------------------------------------------------- the caller
NoMatrix == [tag |-> "None"]

Init ==
    /\ W = NoMatrix
    /\ call = [op |-> "none"]
    /\ openFiles = {}

\* W = read_weights(weights, n_in, n_out) for a source of `sources`; a failed
\* call leaves W as it was.
Read(sources) ==
    \E weights \in sources, n_in \in Ns, n_out \in Ns :
        LET r == read_weights(weights, n_in, n_out)
        IN  /\ call' = [op |-> "read_weights",
                        args |-> [weights |-> weights, n_in |-> n_in, n_out |-> n_out],
                        after |-> [weights |-> r.weights],
                        opened |-> r.opened,
                        ret |-> r.ret]
            /\ W' = IF r.ret.tag = "coo_matrix" THEN r.ret ELSE W
            /\ openFiles' = openFiles \cup r.opened

\* A session starts by reading its weights.
ReadWeights == call.op = "none" /\ Read(MemSources)

\* The loader reads source after source.
LoadWeights == Read(LoadSources)

\* W = add_nans_to_weights(W)
AddNans ==
    /\ call.op \in {"read_weights", "add_nans_to_weights"}
    /\ W.tag = "coo_matrix"
    /\ LET r == add_nans_to_weights(W)
       IN  /\ call' = [op |-> "add_nans_to_weights",
                       args |-> [weights |-> W],
                       after |-> [weights |-> r.weights],
                       ret |-> r.ret]
           /\ W' = r.ret
    /\ UNCHANGED openFiles

\* apply_weights(W, indata, shape_in, shape_out)
ApplyWeights ==
    /\ call.op \in {"read_weights", "add_nans_to_weights"}
    /\ W.tag = "coo_matrix"
    /\ \E indata \in DataArrays, shape_in \in GridShapes, shape_out \in GridShapes :
          LET r == apply_weights(W, indata, shape_in, shape_out)
          IN  /\ call' = [op |-> "apply_weights",
                          args |-> [weights |-> W, indata |-> indata,
                                    shape_in |-> shape_in, shape_out |-> shape_out],
                          after |-> [weights |-> r.weights, indata |-> r.indata],
                          ret |-> r.ret]
              /\ W' = r.weights
    /\ UNCHANGED openFiles

\* The runtime finalises a dataset nothing refers to any more, which closes
\* its file: at some later time, if at all.
Finalize ==
    /\ \E p \in openFiles : openFiles' = openFiles \ {p}
    /\ UNCHANGED <<W, call>>

\* A regridding session on a source held in memory: the weights are read,
\* may be filled with NaNs, and are applied to an array.
Next == ReadWeights \/ AddNans \/ ApplyWeights

Spec == Init /\ [][Next]_vars

\* Loading weights from any source, files included.
NextLoad == LoadWeights \/ Finalize

SpecLoad == Init /\ [][NextLoad]_vars

\* ------------------------------------------------------------- vocabulary of the claims
\* The stored entries of cell (i, j) of a matrix.
At(m, i, j) == {k \in 1..Len(m.data) : m.row[k] = i /\ m.col[k] = j}

\* The stored entries of row i.
InRow(m, i) == {k \in 1..Len(m.data) : m.row[k] = i}

RECURSIVE SumData(_, _)
SumData(m, K) ==
    IF K = {} THEN 0
    ELSE LET k == CHOOSE x \in K : TRUE IN Add(m.data[k], SumData(m, K \ {k}))

\* The weight of cell (i, j): the sum of what is stored there.
CellValue(m, i, j) == SumData(m, At(m, i, j))

RECURSIVE SumSeq(_)
SumSeq(x) == IF x = <<>> THEN 0 ELSE Add(Head(x), SumSeq(Tail(x)))

\* Sum over j of m[i, j] * d[e, j], over the cells row i stores; d[e, j] is
\* the input cell of flat index j under the extra index e.
Regridded(m, d, e, i) ==
    SumSeq([j \in 1..m.shape[2] |->
               IF At(m, i, j - 1) = {} THEN 0
               ELSE Mul(CellValue(m, i, j - 1), d.flat[e * m.shape[2] + j])])

\* How often the triplet of entry k of matrix a is stored in matrix b.
Copies(a, k, b) ==
    Cardinality({n \in 1..Len(b.data) :
                    b.row[n] = a.row[k] /\ b.col[n] = a.col[k] /\ b.data[n] = a.data[k]})

\* Two matrices of the same shape storing the same triplets, in any order.
SameEntries(a, b) ==
    /\ a.shape = b.shape
    /\ Len(a.data) = Len(b.data)
    /\ \A k \in 1..Len(a.data) : Copies(a, k, a) = Copies(a, k, b)

\* b stores the cells a stores, each once, with a's duplicates summed.
Coalesced(a, b) ==
    /\ a.shape = b.shape
    /\ \A i \in 0..(a.shape[1] - 1), j \in 0..(a.shape[2] - 1) :
          /\ Cardinality(At(b, i, j)) = IF At(a, i, j) = {} THEN 0 ELSE 1
          /\ At(a, i, j) # {} => CellValue(b, i, j) = CellValue(a, i, j)

NoDuplicates(m) ==
    \A i \in 0..(m.shape[1] - 1), j \in 0..(m.shape[2] - 1) : Cardinality(At(m, i, j)) <= 1

Rows(m) == 0..(m.shape[1] - 1)

\* The preconditions of apply_weights.
ShapesFit(m, d, shape_in, shape_out) ==
    /\ Len(d.shape) >= 2
    /\ Last2(d.shape) = shape_in
    /\ shape_in[1] * shape_in[2] = m.shape[2]
    /\ shape_out[1] * shape_out[2] = m.shape[1]

\* The calls of apply_weights on matrix m whose preconditions hold.
Fitting(m) ==
    {c \in [indata : {d \in DataArrays : Len(d.shape) >= 2 /\ Prod(Last2(d.shape)) = m.shape[2]},
            shape_out : {g \in GridShapes : g[1] * g[2] = m.shape[1]}] : TRUE}

\* Output cell i under the extra index e of the array apply_weights returns
\* for the call c on matrix m.
Applied(m, c, e, i) ==
    apply_weights(m, c.indata, Last2(c.indata.shape), c.shape_out).ret.flat[e * m.shape[1] + i + 1]

ExtraSize(d) == Prod(Front2(d.shape))

IsRead == call.op = "read_weights"

IsFill == call.op = "add_nans_to_weights"

IsApply == call.op = "apply_weights"

\* A read of a table or mapping that holds a valid 1-based triplet for the
\* grid sizes the caller gives.
ValidTripletRead ==
    /\ IsRead
    /\ call.args.weights.kind \in {"Dataset", "dict"}
    /\ LET nm == IF call.args.weights.kind = "dict" THEN DictNames ELSE DatasetNames
           v  == call.args.weights.vars
       IN  /\ {nm[1], nm[2], nm[3]} \subseteq DOMAIN v
           /\ \A k \in 1..Len(v[nm[3]]) :
                 /\ v[nm[1]][k] \in 1..call.args.n_in
                 /\ v[nm[2]][k] \in 1..call.args.n_out

TripletOf(what) ==
    LET nm == IF call.args.weights.kind = "dict" THEN DictNames ELSE DatasetNames
    IN  call.args.weights.vars[nm[what]]

\* ------------------------------------------------------------- claims
\* C1: when the shapes fit, apply_weights returns an array of shape
\* (*extra_dims, ny_out, nx_out) whose value at extra index e and output
\* cell i is the sum over j of W[i, j] * data[e, j] (over the cells W
\* stores); with an identity matrix the output is the input.
C1_ApplyComputesProduct ==
    (IsApply /\ ShapesFit(call.args.weights, call.args.indata,
                          call.args.shape_in, call.args.shape_out))
    => LET m == call.args.weights
           d == call.args.indata
       IN  /\ call.ret.tag = "ndarray"
           /\ call.ret.shape = Front2(d.shape) \o call.args.shape_out
           /\ Len(call.ret.flat) = ExtraSize(d) * m.shape[1]
           /\ \A e \in 0..(ExtraSize(d) - 1), i \in Rows(m) :
                 call.ret.flat[e * m.shape[1] + i + 1] = Regridded(m, d, e, i)
           /\ (/\ m.shape[1] = m.shape[2]
               /\ \A i \in Rows(m), j \in Rows(m) :
                     Cardinality(At(m, i, j)) = IF i = j THEN 1 ELSE 0
               /\ \A k \in 1..Len(m.data) : m.data[k] = 1)
              => (call.ret.shape = d.shape /\ call.ret.flat = d.flat)

\* A product over two leading dimensions by a matrix that is not square.
C1_Witness ==
    /\ IsApply
    /\ call.ret.tag = "ndarray"
    /\ Len(call.args.indata.shape) = 4
    /\ call.args.weights.shape = <<2, 1>>
    /\ Len(call.args.weights.data) = 2

\* C2: from a table or mapping with a valid 1-based triplet, read_weights
\* returns a matrix of shape (n_out, n_in), whatever the largest index, whose
\* k-th entry is (row_k - 1, col_k - 1, S_k), all indices non-negative.
C2_ReadBuildsTriplet ==
    ValidTripletRead
    => /\ call.ret.tag = "coo_matrix"
       /\ call.ret.shape = <<call.args.n_out, call.args.n_in>>
       /\ Len(call.ret.data) = Len(TripletOf(3))
       /\ Len(call.ret.row) = Len(TripletOf(3))
       /\ Len(call.ret.col) = Len(TripletOf(3))
       /\ \A k \in 1..Len(TripletOf(3)) :
             /\ call.ret.col[k] = TripletOf(1)[k] - 1
             /\ call.ret.row[k] = TripletOf(2)[k] - 1
             /\ call.ret.data[k] = TripletOf(3)[k]
             /\ call.ret.col[k] >= 0
             /\ call.ret.row[k] >= 0

\* The last destination cell and the last source cell are absent from the
\* triplet.
C2_Witness ==
    /\ ValidTripletRead
    /\ call.args.n_out = 2
    /\ call.args.n_in = 2
    /\ Len(TripletOf(3)) >= 1
    /\ \A k \in 1..Len(TripletOf(3)) : TripletOf(1)[k] = 1 /\ TripletOf(2)[k] = 1
    /\ call.ret.tag = "coo_matrix"

\* C7: apply_weights fails with an assertion error, and returns no array,
\* whenever the data's trailing shape differs from shape_in, or shape_in
\* does not multiply to matrix.shape[1], or shape_out to matrix.shape[0].
C7_ApplyRejectsMismatch ==
    (IsApply /\ ~ShapesFit(call.args.weights, call.args.indata,
                           call.args.shape_in, call.args.shape_out))
    => /\ call.ret.tag = "AssertionError"
       /\ "flat" \notin DOMAIN call.ret

\* Only the horizontal shape of the data is wrong: same size, other shape.
C7_Witness ==
    /\ IsApply
    /\ Last2(call.args.indata.shape) = <<1, 2>>
    /\ call.args.shape_in = <<2, 1>>
    /\ call.args.weights.shape[2] = 2
    /\ call.args.shape_out[1] * call.args.shape_out[2] = call.args.weights.shape[1]
    /\ call.ret.tag = "AssertionError"

\* C10: every call, failing or not, leaves the objects passed to it as they
\* were: the matrix and the data of apply_weights, the matrix of
\* add_nans_to_weights (which returns the filled matrix as a new value), the
\* source of read_weights (its indices still 1-based).
C10_InputsUnchanged ==
    /\ call.op # "none" => call.after.weights = call.args.weights
    /\ IsApply => (call.after.indata = call.args.indata /\ W = call.args.weights)
    /\ IsFill => \A i \in Rows(call.args.weights) :
                    InRow(call.args.weights, i) = {}
                    => (InRow(call.after.weights, i) = {} /\ InRow(call.ret, i) # {})

\* A matrix with an empty row went through add_nans_to_weights.
C10_Witness ==
    /\ IsFill
    /\ \E i \in Rows(call.args.weights) : InRow(call.args.weights, i) = {}
    /\ call.ret # call.args.weights

\* C3, as claimed: add_nans_to_weights keeps the shape, and every row of the
\* matrix it returns has at least one nonzero entry (NaN counting as nonzero).
C3_EveryRowNonzero ==
    IsFill
    => /\ call.ret.shape = call.args.weights.shape
       /\ \A i \in Rows(call.ret) : \E k \in InRow(call.ret, i) : call.ret.data[k] # 0

\* C3, amended: add_nans_to_weights keeps the shape, and every row of the
\* matrix it returns has at least one stored entry: the NaN in the rows that
\* stored nothing, and what the row stored otherwise, be it only zeros.
C3_EveryRowStored ==
    IsFill
    => /\ call.ret.tag = "coo_matrix"
       /\ call.ret.shape = call.args.weights.shape
       /\ \A k \in 1..Len(call.ret.data) : call.ret.row[k] \in Rows(call.ret)
       /\ \A i \in Rows(call.ret) :
             /\ InRow(call.ret, i) # {}
             /\ InRow(call.args.weights, i) = {}
                => \A k \in InRow(call.ret, i) : call.ret.data[k] = NaN

\* One row stored nothing and another stores only a zero.
C3_Witness ==
    /\ IsFill
    /\ \E i \in Rows(call.args.weights) : InRow(call.args.weights, i) = {}
    /\ \E i \in Rows(call.args.weights) :
          /\ InRow(call.args.weights, i) # {}
          /\ \A k \in InRow(call.args.weights, i) : call.args.weights.data[k] = 0

\* C4, as claimed: filling a filled matrix changes neither shape nor
\* entries, and a matrix whose rows all have an entry comes back with the
\* same shape and the same entries.
C4_FillIdempotentSameEntries ==
    IsFill
    => /\ SameEntries(add_nans_to_weights(call.ret).ret, call.ret)
       /\ (\A i \in Rows(call.args.weights) : InRow(call.args.weights, i) # {})
          => SameEntries(call.ret, call.args.weights)

\* C4, amended: filling a filled matrix changes neither shape nor entries;
\* a matrix whose rows all have an entry comes back with the same shape and
\* its entries with the duplicates of a cell summed into one, so with the
\* same entries when no cell is stored twice.
C4_FillIdempotentCoalesced ==
    IsFill
    => /\ SameEntries(add_nans_to_weights(call.ret).ret, call.ret)
       /\ (\A i \in Rows(call.args.weights) : InRow(call.args.weights, i) # {})
          => /\ Coalesced(call.args.weights, call.ret)
             /\ NoDuplicates(call.args.weights) => SameEntries(call.ret, call.args.weights)

\* Every row has an entry and one cell is stored twice.
C4_Witness ==
    /\ IsFill
    /\ call.args.weights.shape[2] = 2
    /\ \A i \in Rows(call.args.weights) : InRow(call.args.weights, i) # {}
    /\ ~NoDuplicates(call.args.weights)

\* The entries of row i of a and of b are the same (column, value) pairs.
SameRow(a, b, i) ==
    /\ Cardinality(InRow(a, i)) = Cardinality(InRow(b, i))
    /\ \A k \in InRow(a, i) : Copies(a, k, a) = Copies(a, k, b)

\* Row i of b holds the cells row i of a stores, each once, duplicates summed.
CoalescedRow(a, b, i) ==
    \A j \in 0..(a.shape[2] - 1) :
        /\ Cardinality(At(b, i, j)) = IF At(a, i, j) = {} THEN 0 ELSE 1
        /\ At(a, i, j) # {} => CellValue(b, i, j) = CellValue(a, i, j)

\* What C5 says of the rows without entries: one entry (column 0, NaN) in the
\* filled matrix f, and NaN at that output cell for every input array.
EmptyRowsGiveNaN(m, f) ==
    \A i \in Rows(m) :
        InRow(m, i) = {}
        => /\ Cardinality(InRow(f, i)) = 1
           /\ \A k \in InRow(f, i) : f.col[k] = 0 /\ f.data[k] = NaN
           /\ \A c \in Fitting(f) : \A e \in 0..(ExtraSize(c.indata) - 1) :
                 Applied(f, c, e, i) = NaN

\* What C5 says of the values of the other rows: apply_weights yields the
\* same value with the filled matrix f as with m.
OtherRowsSameValue(m, f) ==
    \A i \in Rows(m) :
        InRow(m, i) # {}
        => \A c \in Fitting(f) : \A e \in 0..(ExtraSize(c.indata) - 1) :
              Applied(f, c, e, i) = Applied(m, c, e, i)

\* C5, as claimed: a row without entries gets the single entry (column 0,
\* NaN) and its output cell is NaN for every input; a row with entries
\* holds the same (column, value) entries after the fill and its output cell
\* has the same value.
C5_FillRowsSameEntries ==
    IsFill
    => /\ EmptyRowsGiveNaN(call.args.weights, call.ret)
       /\ OtherRowsSameValue(call.args.weights, call.ret)
       /\ \A i \in Rows(call.args.weights) :
             InRow(call.args.weights, i) # {} => SameRow(call.args.weights, call.ret, i)

\* C5, amended: a row without entries gets the single entry (column 0, NaN)
\* and its output cell is NaN for every input; a row with entries holds,
\* after the fill, its cells once each with the duplicates of a cell summed
\* (the same entries when no cell of the row is stored twice), and its
\* output cell has the same value.
C5_FillRowsCoalesced ==
    IsFill
    => /\ EmptyRowsGiveNaN(call.args.weights, call.ret)
       /\ OtherRowsSameValue(call.args.weights, call.ret)
       /\ \A i \in Rows(call.args.weights) :
             InRow(call.args.weights, i) # {}
             => /\ CoalescedRow(call.args.weights, call.ret, i)
                /\ (\A j \in 0..(call.args.weights.shape[2] - 1) :
                       Cardinality(At(call.args.weights, i, j)) <= 1)
                   => SameRow(call.args.weights, call.ret, i)

\* The matrix of shape (2, 2) with entries in row 0 only.
C5_Witness ==
    /\ IsFill
    /\ call.args.weights.shape = <<2, 2>>
    /\ InRow(call.args.weights, 0) # {}
    /\ InRow(call.args.weights, 1) = {}
    /\ \E k \in 1..Len(call.ret.data) :
          call.ret.row[k] = 1 /\ call.ret.col[k] = 0 /\ call.ret.data[k] = NaN

\* C6, as claimed: for a cell the triplet gives several times, the matrix
\* read_weights builds holds a single entry, whose value is the sum of the
\* duplicates, and apply_weights uses that sum.
C6_DuplicatesOneEntry ==
    (ValidTripletRead /\ call.ret.tag = "coo_matrix")
    => /\ \A i \in Rows(call.ret), j \in 0..(call.ret.shape[2] - 1) :
             /\ Cardinality(At(call.ret, i, j)) <= 1
             /\ \A k \in At(call.ret, i, j) :
                   call.ret.data[k] =
                       SumSeq([n \in 1..Len(TripletOf(3)) |->
                                  IF TripletOf(2)[n] = i + 1 /\ TripletOf(1)[n] = j + 1
                                  THEN TripletOf(3)[n] ELSE 0])
       /\ \A c \in Fitting(call.ret) :
             \A e \in 0..(ExtraSize(c.indata) - 1), i \in Rows(call.ret) :
                Applied(call.ret, c, e, i) = Regridded(call.ret, c.indata, e, i)

\* C6, amended: for a cell the triplet gives several times, the matrix
\* read_weights builds stores every duplicate as an entry of its own; the
\* weight apply_weights uses for the cell is the sum of the duplicates.
C6_DuplicatesSummedOnUse ==
    (ValidTripletRead /\ call.ret.tag = "coo_matrix")
    => /\ \A i \in Rows(call.ret), j \in 0..(call.ret.shape[2] - 1) :
             /\ Cardinality(At(call.ret, i, j)) =
                   Cardinality({n \in 1..Len(TripletOf(3)) :
                                   TripletOf(2)[n] = i + 1 /\ TripletOf(1)[n] = j + 1})
             /\ CellValue(call.ret, i, j) =
                   SumSeq([n \in 1..Len(TripletOf(3)) |->
                              IF TripletOf(2)[n] = i + 1 /\ TripletOf(1)[n] = j + 1
                              THEN TripletOf(3)[n] ELSE 0])
       /\ \A c \in Fitting(call.ret) :
             \A e \in 0..(ExtraSize(c.indata) - 1), i \in Rows(call.ret) :
                Applied(call.ret, c, e, i) = Regridded(call.ret, c.indata, e, i)

\* The triplet gives cell (row 1, col 1) twice, with 0.3 and 0.2.
C6_Witness ==
    /\ ValidTripletRead
    /\ call.ret.tag = "coo_matrix"
    /\ TripletOf(1) = <<1, 1>>
    /\ TripletOf(2) = <<1, 1>>
    /\ TripletOf(3) = <<3, 2>>
    /\ CellValue(call.ret, 0, 0) = 5

\* The fields a table or mapping source must have.
Required(weights) ==
    IF weights.kind = "dict" THEN {"col_src", "row_dst", "weights"} ELSE {"col", "row", "S"}

\* The fields of a source: of the file, for a path to a file.
FieldsOf(weights) ==
    IF weights.kind = "str" THEN DOMAIN Files[weights.path] ELSE DOMAIN weights.vars

\* C8: read_weights fails with a not-found error, opening nothing, for a
\* path with no file; it fails with a schema error whose message names the
\* missing field for a table or mapping that lacks a required field; no
\* matrix is returned in either case.
C8_ReadRejectsBadSource ==
    IsRead
    => LET weights == call.args.weights
       IN  /\ (weights.kind = "str" /\ weights.path \notin DOMAIN Files)
              => (call.ret.tag = "IOError" /\ call.opened = {})
           /\ (/\ weights.kind \in {"str", "Dataset", "dict"}
               /\ weights.kind = "str" => weights.path \in DOMAIN Files
               /\ ~(Required(weights) \subseteq FieldsOf(weights)))
              => /\ call.ret.tag = "ValueError"
                 /\ (Required(weights) \ FieldsOf(weights)) \subseteq call.ret.names

\* A table without S was refused.
C8_Witness ==
    /\ IsRead
    /\ call.args.weights.kind = "Dataset"
    /\ DOMAIN call.args.weights.vars = {"col", "row"}
    /\ call.ret.tag = "ValueError"

\* C9: the weight file a call of read_weights opened is no longer held open
\* once the call has returned or failed.
C9_FileReleased ==
    (IsRead /\ call.args.weights.kind = "str" /\ call.args.weights.path \in DOMAIN Files)
    => call.args.weights.path \notin openFiles

====
